---- MODULE Spec2Model ----
(***************************************************************************)
(* A model of checksum-tool.py: one run of the script (prompt, generate or *)
(* compare), the hashing worker pool, the reconciliation loop of           *)
(* compare_checksums, and the chunked read loop of compute_hash.           *)
(***************************************************************************)
EXTENDS Integers, Sequences, FiniteSets, TLC

\* ------------------------------------------------------------------ bounds
\* Largest number of records in the persisted baseline at start.
MaxBaseline == 2
\* Largest number of files found under the root directory.
MaxFiles == 2
\* How far around each chunk-size threshold the file sizes are sampled.
SizeSpread == 1

\* The eligible file paths under the root, file contents and their digests.
Paths == {"a", "b", "c"}
Contents == {"k1", "k2"}
Digests == {"D1", "D2"}
\* A persisted record's checksum is whatever the JSON holds: a digest or "".
StoredChecksums == Digests \cup {""}

\* hashlib.blake2b(content).hexdigest(): injective on the contents modelled,
\* and never the empty string.
hexdigest(content) == CASE content = "k1" -> "D1" [] content = "k2" -> "D2"

\* str.lower() on the answers the prompts are given.
Lower(s) ==
  CASE s = "Generate" -> "generate"
    [] s = "Y" -> "y"
    [] OTHER -> s

OperationInputs == {"generate", "compare", "Generate", "gen"}
ProceedInputs == {"y", "Y", "n"}
valid_operations == {"generate", "compare"}

\* Python's None, as it comes out of dict.get.
None == "None"
\* The exit status: <<>> while the process runs, <<status>> once it exited.
Running == <<>>
\* sys.exit() without an argument, and the script reaching its end.
ExitNormally == <<0>>

VARIABLES
  pc,                   \* where the script's main thread is
  mode,                 \* the operation that ran: "none", "generate", "compare"
  baseline_file,        \* all-checksums.json: [exists, objs]
  status_file,          \* status-checksums.json: [exists, report]
  disk,                 \* each path: "absent", "unreadable" or its content
  no_file_exist_input,  \* the answer to the "Proceed? y/N" prompt
  operation_choice,     \* the last answer to the generate/compare prompt
  stored_checksum_objs, \* compare_checksums: json.load(f)
  futures,              \* each path: "none", "pending", "done", "open_error", "read_error"
  checksums,            \* compute_checksums: the records collected
  matched, changed, new, missing, relocated,
  popped,               \* what the delete_by_key_value calls returned, in order
  printed,              \* the failure lines printed
  baseline_writes, status_writes,  \* json.dump calls made on each file
  exit_status,
  \* compute_hash's read loop
  h_pc, file_size, adaptive_chunk_size, file_pos, file_hash,
  \* filter_files
  filtered_files,       \* the list filter_files builds and returns
  os_sep,               \* os.sep of the platform the script runs on
  tree,                 \* the files under root_dir: [dir, name]
  walk_stack            \* the directories os.walk has still to yield

main_vars == <<pc, mode, baseline_file, status_file, disk,
               no_file_exist_input, operation_choice,
               stored_checksum_objs, futures, checksums, matched,
               changed, new, missing, relocated, popped, printed,
               baseline_writes, status_writes, exit_status>>
hash_vars == <<h_pc, file_size, adaptive_chunk_size, file_pos, file_hash>>
walk_vars == <<filtered_files, os_sep, tree, walk_stack>>
vars == <<main_vars, hash_vars, walk_vars>>

\* --------------------------------------------------------------- helpers
Range(s) == {s[i] : i \in 1..Len(s)}

\* in_dictlist: the first entry with entry[key] = value, else False.  The
\* result is a sequence of at most one entry; <<>> is the falsy result.
in_dictlist(key, value, my_dictlist) ==
  LET hits == {i \in 1..Len(my_dictlist) : my_dictlist[i][key] = value}
  IN IF hits = {} THEN <<>>
     ELSE <<my_dictlist[CHOOSE i \in hits : \A j \in hits : i <= j]>>

Truthy(x) == x # <<>>

\* obj.get(key)
Get(obj, key) == IF key \in DOMAIN obj THEN obj[key] ELSE None

RemoveAt(array, i) ==
  [j \in 1..(Len(array) - 1) |-> IF j < i THEN array[j] ELSE array[j + 1]]

\* delete_by_key_value: pops the first obj with obj.get(key) = value and
\* returns it (popped = <<obj>>); returns None (popped = <<>>) and leaves
\* the array alone when there is none.
delete_by_key_value(key, value, array) ==
  LET hits == {i \in 1..Len(array) : Get(array[i], key) = value}
  IN IF hits = {} THEN [array |-> array, popped |-> <<>>]
     ELSE LET i == CHOOSE i \in hits : \A j \in hits : i <= j
          IN [array |-> RemoveAt(array, i), popped |-> <<array[i]>>]

\* The dict comprehension of compare_checksums: a later record of a path
\* replaces an earlier one.
stored_checksums(objs) ==
  [p \in {objs[i].file_path : i \in 1..Len(objs)} |->
     LET last == CHOOSE i \in 1..Len(objs) :
                   /\ objs[i].file_path = p
                   /\ \A j \in 1..Len(objs) : objs[j].file_path = p => j <= i
     IN objs[last].checksum]

\* stored_checksums.get(file_path)
StoredGet(objs, file_path) ==
  IF file_path \in DOMAIN stored_checksums(objs)
  THEN stored_checksums(objs)[file_path] ELSE None

\* filter_files with every file appended twice.
filter_filesTwice ==
  LET once == SelectSeq(<<"a", "b", "c">>, LAMBDA p : disk[p] # "absent")
  IN once \o once

\* filter_files(root_dir) as the script's two operations see it: the list
\* of the files found under the root, each once, in the order of the walk.
filter_files == SelectSeq(<<"a", "b", "c">>, LAMBDA p : disk[p] # "absent")

\* What running compute_hash(file_path) in a worker can end in: the digest
\* of the file's content, or an OSError from open() (which carries the file
\* name) or from file.read() (which does not).
HashOutcomes(file_path) ==
  IF disk[file_path] \in Contents THEN {"done"} ELSE {"open_error", "read_error"}

compute_hash(file_path) == hexdigest(disk[file_path])

\* str(exc) of the OSError a failed task raised: the file name is part of
\* it only when open() raised.
ExcText(file_path, outcome) ==
  IF outcome = "open_error"
  THEN [errno |-> "EACCES", filename |-> file_path]
  ELSE [errno |-> "EIO", filename |-> "none"]

Submitted == {p \in Paths : futures[p] # "none"}
\* ThreadPoolExecutor.__exit__ is shutdown(wait=True): the with block is
\* left only when every submitted task has finished.
AllTasksCompleted == \A p \in Submitted : futures[p] # "pending"
\* PoolFinished of a pool that is not waited for: shutdown(wait=False) and
\* no as_completed loop.
PoolNotAwaited == TRUE

\* The main thread is past the with block (lines 83-91 and 149-162): the
\* as_completed loop has ended and the pool has shut down.
PoolFinished == AllTasksCompleted

\* ------------------------------------------------------------------ Init
Records == [file_path : Paths, checksum : StoredChecksums]
BaselineSeqs == UNION {[1..n -> Records] : n \in 0..MaxBaseline}
Disks == {d \in [Paths -> {"absent", "unreadable"} \cup Contents] :
            Cardinality({p \in Paths : d[p] # "absent"}) <= MaxFiles}

HashIdle ==
  /\ h_pc = "idle"
  /\ file_size = 0
  /\ adaptive_chunk_size = 0
  /\ file_pos = 0
  /\ file_hash = <<>>

\* filter_files has not been called.
WalkIdle ==
  /\ filtered_files = <<>>
  /\ os_sep = "/"
  /\ tree = {}
  /\ walk_stack = <<>>

Init ==
  /\ pc = "start"
  /\ mode = "none"
  /\ baseline_file \in {[exists |-> FALSE, objs |-> <<>>]}
                       \cup {[exists |-> TRUE, objs |-> s] : s \in BaselineSeqs}
  /\ status_file = [exists |-> FALSE, report |-> <<>>]
  /\ disk \in Disks
  /\ no_file_exist_input = ""
  /\ operation_choice = ""
  /\ stored_checksum_objs = <<>>
  /\ futures = [p \in Paths |-> "none"]
  /\ checksums = <<>>
  /\ matched = <<>> /\ changed = <<>> /\ new = <<>> /\ missing = <<>>
  /\ relocated = <<>>
  /\ popped = <<>>
  /\ printed = {}
  /\ baseline_writes = 0 /\ status_writes = 0
  /\ exit_status = Running
  /\ HashIdle
  /\ WalkIdle

\* ------------------------------------------------- the script, lines 168-203
\* Lines 169-176: no baseline file, the user is asked whether to proceed.
AnswerProceed(ans) ==
  /\ pc = "start"
  /\ ~baseline_file.exists
  /\ no_file_exist_input' = ans
  /\ IF Lower(ans) # "y"
     THEN /\ pc' = "exited"
          /\ exit_status' = ExitNormally
          /\ mode' = mode
     ELSE /\ pc' = "compute_checksums"
          /\ mode' = "generate"
          /\ exit_status' = exit_status
  /\ UNCHANGED <<baseline_file, status_file, disk, operation_choice,
                 stored_checksum_objs, futures, checksums, matched,
                 changed, new, missing, relocated, popped, printed,
                 baseline_writes, status_writes, hash_vars, walk_vars>>

\* Lines 184-200: one pass of the prompt loop and, when the answer leaves
\* the loop, the choice of the operation.
AnswerOperation(ans) ==
  /\ pc = "start"
  /\ baseline_file.exists
  /\ operation_choice' = ans
  /\ IF Lower(ans) \notin valid_operations
     THEN /\ pc' = "start"
          /\ mode' = mode
     ELSE IF ans = "generate"
          THEN /\ pc' = "compute_checksums"
               /\ mode' = "generate"
          ELSE /\ pc' = "compare_checksums"
               /\ mode' = "compare"
  /\ UNCHANGED <<baseline_file, status_file, disk, no_file_exist_input,
                 stored_checksum_objs, futures, checksums, matched,
                 changed, new, missing, relocated, popped, printed,
                 baseline_writes, status_writes, exit_status, hash_vars, walk_vars>>

\* ----------------------------------------- compute_checksums, lines 146-165
\* Lines 149-153: every path filter_files returns is submitted to the pool.
SubmitGenerate ==
  /\ pc = "compute_checksums"
  /\ filtered_files' = filter_files
  /\ futures' = [p \in Paths |->
                   IF p \in Range(filtered_files') THEN "pending" ELSE "none"]
  /\ pc' = "generate_pool"
  /\ UNCHANGED <<mode, baseline_file, status_file, disk, no_file_exist_input,
                 operation_choice, stored_checksum_objs, checksums,
                 matched, changed, new, missing, relocated, popped, printed,
                 baseline_writes, status_writes, exit_status, hash_vars,
                 os_sep, tree, walk_stack>>

\* Lines 151-162: a worker runs compute_hash(file_path) to its end and
\* as_completed hands the finished future to the main thread, which appends
\* its record or prints its failure with the path.  The main thread's part
\* touches only checksums and the output, which no worker touches, so the
\* task's end and its handling are one step; the order of the steps is the
\* order in which as_completed yields.
HashTask(p) ==
  /\ pc = "generate_pool"
  /\ futures[p] = "pending"
  /\ \E outcome \in HashOutcomes(p) :
       /\ futures' = [futures EXCEPT ![p] = outcome]
       /\ IF outcome = "done"
          THEN /\ checksums' = Append(checksums,
                                 [file_path |-> p, checksum |-> compute_hash(p)])
               /\ printed' = printed
          ELSE /\ printed' = printed \cup {[mode |-> "generate", file_path |-> p,
                                           exc |-> ExcText(p, outcome)]}
               /\ checksums' = checksums
  /\ UNCHANGED <<pc, mode, baseline_file, status_file, disk,
                 no_file_exist_input, operation_choice, stored_checksum_objs,
                 matched, changed, new, missing, relocated, popped,
                 baseline_writes, status_writes, exit_status, hash_vars, walk_vars>>

\* Lines 164-165: after the with block, the records are dumped.
WriteBaseline ==
  /\ pc = "generate_pool"
  /\ PoolFinished
  /\ baseline_file' = [exists |-> TRUE, objs |-> checksums]
  /\ baseline_writes' = baseline_writes + 1
  /\ pc' = "generated"
  /\ UNCHANGED <<mode, status_file, disk, no_file_exist_input,
                 operation_choice, stored_checksum_objs, futures,
                 checksums, matched, changed, new, missing, relocated, popped,
                 printed, status_writes, exit_status, hash_vars, walk_vars>>

\* Lines 179-181 (the script ends) and 194-197 (sys.exit()).
ExitAfterGenerate ==
  /\ pc = "generated"
  /\ pc' = "exited"
  /\ exit_status' = ExitNormally
  /\ UNCHANGED <<mode, baseline_file, status_file, disk, no_file_exist_input,
                 operation_choice, stored_checksum_objs, futures,
                 checksums, matched, changed, new, missing, relocated, popped,
                 printed, baseline_writes, status_writes, hash_vars, walk_vars>>

\* ----------------------------------------- compare_checksums, lines 56-125
\* stored_checksum is falsy when the path has no record (None) and when its
\* record holds the empty string.
StoredTruthy(stored_checksum) == stored_checksum # None /\ stored_checksum # ""

\* process_file with the comparison of the two checksums inverted.
process_fileInverted(file_path, lists) ==
  LET current_checksum == compute_hash(file_path)
      stored_checksum == StoredGet(stored_checksum_objs, file_path)
      result == [file |-> file_path, stored_checksum |-> stored_checksum,
                 current_checksum |-> current_checksum]
  IN IF StoredTruthy(stored_checksum)
     THEN IF current_checksum # stored_checksum
          THEN [lists EXCEPT !.matched = Append(@, result)]
          ELSE [lists EXCEPT !.changed = Append(@, result)]
     ELSE [lists EXCEPT !.new = Append(@, [file |-> file_path,
                                          current_checksum |-> current_checksum])]

\* Lines 65-79, on a file whose hash was computed: the lists after the
\* append process_file makes.
process_file(file_path, lists) ==
  LET current_checksum == compute_hash(file_path)
      stored_checksum == StoredGet(stored_checksum_objs, file_path)
      result == [file |-> file_path, stored_checksum |-> stored_checksum,
                 current_checksum |-> current_checksum]
  IN IF StoredTruthy(stored_checksum)
     THEN IF current_checksum = stored_checksum
          THEN [lists EXCEPT !.matched = Append(@, result)]
          ELSE [lists EXCEPT !.changed = Append(@, result)]
     ELSE [lists EXCEPT !.new = Append(@, [file |-> file_path,
                                          current_checksum |-> current_checksum])]

\* IsClassified with the test of line 95 turned round: a path counts as
\* classified when it is in none of the three lists.
IsClassifiedNegated(file_path, lists) ==
  ~Truthy(in_dictlist("file", file_path,
                      lists.matched \o lists.changed \o lists.new))

\* Line 95: the path is already in one of the lists the workers filled.
IsClassified(file_path, lists) ==
  Truthy(in_dictlist("file", file_path,
                     lists.matched \o lists.changed \o lists.new))

\* DeletePair with the key of the two searches mistaken: the file names are
\* looked for under "current_checksum", and nothing is found.
DeletePairWrongKey(new_entry, missing_entry, lists) ==
  LET dn == delete_by_key_value("current_checksum", new_entry.file, lists.new)
      dm == delete_by_key_value("current_checksum", missing_entry.file,
                                lists.missing)
  IN [lists EXCEPT !.new = dn.array, !.missing = dm.array,
                   !.popped = Append(@, [new |-> dn.popped, missing |-> dm.popped])]

\* Lines 121-122: the two entries are deleted by their "file"; what the two
\* calls return is kept in popped.
DeletePair(new_entry, missing_entry, lists) ==
  LET dn == delete_by_key_value("file", new_entry.file, lists.new)
      dm == delete_by_key_value("file", missing_entry.file, lists.missing)
  IN [lists EXCEPT !.new = dn.array, !.missing = dm.array,
                   !.popped = Append(@, [new |-> dn.popped, missing |-> dm.popped])]

\* Lines 94-122: the body of the loop for one baseline record.
ReconcileStep(checksum_obj, lists) ==
  LET file_path == checksum_obj.file_path
      checksum == checksum_obj.checksum
      with_missing ==
        IF ~IsClassified(file_path, lists)
        THEN [lists EXCEPT !.missing =
                Append(@, [file |-> file_path, stored_checksum |-> checksum,
                           current_checksum |-> checksum])]
        ELSE lists
      new_entry == in_dictlist("current_checksum", checksum, with_missing.new)
      missing_entry ==
        in_dictlist("current_checksum", checksum, with_missing.missing)
  IN IF Truthy(new_entry) /\ Truthy(missing_entry)
     THEN DeletePair(new_entry[1], missing_entry[1], with_missing)
     ELSE with_missing

\* Lines 93-122: the loop over stored_checksum_objs, from record i on.
RECURSIVE ReconcileLoop(_, _, _)
ReconcileLoop(objs, i, lists) ==
  IF i > Len(objs) THEN lists
  ELSE ReconcileLoop(objs, i + 1, ReconcileStep(objs[i], lists))

Lists == [matched |-> matched, changed |-> changed, new |-> new,
          missing |-> missing, popped |-> popped]

\* Lines 57-61: the baseline is loaded; nothing checks the records' paths.
LoadBaseline ==
  /\ pc = "compare_checksums"
  /\ stored_checksum_objs' = baseline_file.objs
  /\ pc' = "compare_submit"
  /\ UNCHANGED <<mode, baseline_file, status_file, disk, no_file_exist_input,
                 operation_choice, futures, checksums, matched,
                 changed, new, missing, relocated, popped, printed,
                 baseline_writes, status_writes, exit_status, hash_vars, walk_vars>>

\* Lines 81-86: every path filter_files returns is submitted to the pool.
SubmitCompare ==
  /\ pc = "compare_submit"
  /\ filtered_files' = filter_files
  /\ futures' = [p \in Paths |->
                   IF p \in Range(filtered_files') THEN "pending" ELSE "none"]
  /\ pc' = "compare_pool"
  /\ UNCHANGED <<mode, baseline_file, status_file, disk, no_file_exist_input,
                 operation_choice, stored_checksum_objs, checksums,
                 matched, changed, new, missing, relocated, popped, printed,
                 baseline_writes, status_writes, exit_status, hash_vars,
                 os_sep, tree, walk_stack>>

\* Lines 65-79 and 87-91: a worker runs process_file(file_path) to its end
\* (the append is made by the worker, or compute_hash raises and nothing is
\* appended) and as_completed hands the future to the main thread, which
\* prints the exception of a failed one, without the path.
ProcessFileTask(p) ==
  /\ pc = "compare_pool"
  /\ futures[p] = "pending"
  /\ \E outcome \in HashOutcomes(p) :
       /\ futures' = [futures EXCEPT ![p] = outcome]
       /\ LET after == IF outcome = "done" THEN process_file(p, Lists) ELSE Lists
          IN /\ matched' = after.matched
             /\ changed' = after.changed
             /\ new' = after.new
       /\ printed' = IF outcome = "done" THEN printed
                     ELSE printed \cup {[mode |-> "compare", file_path |-> "none",
                                         exc |-> ExcText(p, outcome)]}
  /\ UNCHANGED <<pc, mode, baseline_file, status_file, disk,
                 no_file_exist_input, operation_choice, stored_checksum_objs,
                 checksums, missing, relocated, popped,
                 baseline_writes, status_writes, exit_status, hash_vars, walk_vars>>

\* Lines 93-122: after the with block, the loop over the baseline records.
Reconcile ==
  /\ pc = "compare_pool"
  /\ PoolFinished
  /\ LET after == ReconcileLoop(stored_checksum_objs, 1, Lists)
     IN /\ new' = after.new
        /\ missing' = after.missing
        /\ popped' = after.popped
  /\ pc' = "reconciled"
  /\ UNCHANGED <<mode, baseline_file, status_file, disk, no_file_exist_input,
                 operation_choice, stored_checksum_objs, futures,
                 checksums, matched, changed, relocated, printed,
                 baseline_writes, status_writes, exit_status, hash_vars, walk_vars>>

\* WriteStatus with the report dumped into checksum_list_file.
WriteStatusIntoBaseline ==
  /\ pc = "reconciled"
  /\ baseline_file' = [exists |-> TRUE, objs |-> changed \o new \o missing]
  /\ baseline_writes' = baseline_writes + 1
  /\ pc' = "compared"
  /\ UNCHANGED <<mode, status_file, disk, no_file_exist_input,
                 operation_choice, stored_checksum_objs, futures,
                 checksums, matched, changed, new, missing, relocated, popped,
                 printed, status_writes, exit_status, hash_vars, walk_vars>>

\* Lines 124-125: the report is dumped.
WriteStatus ==
  /\ pc = "reconciled"
  /\ status_file' = [exists |-> TRUE,
                     report |-> [changed |-> changed, new |-> new,
                                 missing |-> missing]]
  /\ status_writes' = status_writes + 1
  /\ pc' = "compared"
  /\ UNCHANGED <<mode, baseline_file, disk, no_file_exist_input,
                 operation_choice, stored_checksum_objs, futures,
                 checksums, matched, changed, new, missing, relocated, popped,
                 printed, baseline_writes, exit_status, hash_vars, walk_vars>>

\* Lines 201-203: the script ends.
ExitAfterCompare ==
  /\ pc = "compared"
  /\ pc' = "exited"
  /\ exit_status' = ExitNormally
  /\ UNCHANGED <<mode, baseline_file, status_file, disk, no_file_exist_input,
                 operation_choice, stored_checksum_objs, futures,
                 checksums, matched, changed, new, missing, relocated, popped,
                 printed, baseline_writes, status_writes, hash_vars, walk_vars>>

Next ==
  \/ \E ans \in ProceedInputs : AnswerProceed(ans)
  \/ \E ans \in OperationInputs : AnswerOperation(ans)
  \/ SubmitGenerate
  \/ \E p \in Paths : HashTask(p)
  \/ WriteBaseline
  \/ ExitAfterGenerate
  \/ LoadBaseline
  \/ SubmitCompare
  \/ \E p \in Paths : ProcessFileTask(p)
  \/ Reconcile
  \/ WriteStatus
  \/ ExitAfterCompare

Spec == Init /\ [][Next]_vars

\* ------------------------------------------------ compute_hash, lines 37-53
max_chunk_size == 16 * 1024

\* Lines 40-48: the chunk size chosen from the file size.
AdaptiveChunkSize(size) ==
  IF size > 2^24 THEN 2^20
  ELSE IF size > 2^20 THEN 2^16
  ELSE max_chunk_size

\* hashlib.blake2b(): the accumulator.  Its digest is a function of the
\* bytes absorbed so far, in order: it is the digest of the first
\* `absorbed` bytes of the file as long as every chunk fed started where
\* the one before ended (intact), and of something else otherwise.
NewHash == [absorbed |-> 0, intact |-> TRUE]

\* file.read(n) at position pos of a file of `size` bytes: the bytes
\* [start, start + len), none at the end of the file.
FileRead(pos, n, size) ==
  [start |-> pos, len |-> IF size - pos < n THEN size - pos ELSE n]

\* file_hash.update(chunk)
Update(hash, chunk) ==
  [absorbed |-> hash.absorbed + chunk.len,
   intact |-> hash.intact /\ chunk.start = hash.absorbed]

\* LoopEnds of a loop that stops at the first chunk shorter than asked for,
\* without feeding it.
LoopEndsOnShortChunk(chunk) == chunk.len < adaptive_chunk_size

\* iter(..., b""): the loop ends at the first empty chunk.
LoopEnds(chunk) == chunk.len = 0

\* Lines 39-48: the accumulator is made, the file opened and the chunk
\* size chosen.
HashOpen ==
  /\ h_pc = "open"
  /\ file_hash' = NewHash
  /\ file_pos' = 0
  /\ adaptive_chunk_size' = AdaptiveChunkSize(file_size)
  /\ h_pc' = "read"
  /\ UNCHANGED <<main_vars, walk_vars, file_size>>

\* Lines 50-51: one pass of the read loop.
HashRead ==
  /\ h_pc = "read"
  /\ LET chunk == FileRead(file_pos, adaptive_chunk_size, file_size)
     IN IF LoopEnds(chunk)
        THEN /\ h_pc' = "done"
             /\ UNCHANGED <<file_hash, file_pos>>
        ELSE /\ file_hash' = Update(file_hash, chunk)
             /\ file_pos' = file_pos + chunk.len
             /\ h_pc' = h_pc
  /\ UNCHANGED <<main_vars, walk_vars, file_size, adaptive_chunk_size>>

\* The file sizes tried: around each threshold of the chunk-size choice.
FileSizes ==
  {t + d : t \in {0, max_chunk_size, 2^16, 2^20, 2^24},
           d \in (0 - SizeSpread)..SizeSpread} \cap Nat

InitHash ==
  /\ pc = "compute_hash"
  /\ mode = "none"
  /\ baseline_file = [exists |-> FALSE, objs |-> <<>>]
  /\ status_file = [exists |-> FALSE, report |-> <<>>]
  /\ disk = [p \in Paths |-> "absent"]
  /\ no_file_exist_input = ""
  /\ operation_choice = ""
  /\ stored_checksum_objs = <<>>
  /\ futures = [p \in Paths |-> "none"]
  /\ checksums = <<>>
  /\ matched = <<>> /\ changed = <<>> /\ new = <<>> /\ missing = <<>>
  /\ relocated = <<>>
  /\ popped = <<>>
  /\ printed = {}
  /\ baseline_writes = 0 /\ status_writes = 0
  /\ exit_status = Running
  /\ h_pc = "open"
  /\ file_size \in FileSizes
  /\ adaptive_chunk_size = 0
  /\ file_pos = 0
  /\ file_hash = NewHash
  /\ WalkIdle

NextHash == HashOpen \/ HashRead

SpecHash == InitHash /\ [][NextHash]_vars

\* ------------------------------------------------ filter_files, lines 128-143
\* Deepest directory below the root, and largest number of files in the tree.
MaxDepth == 2
MaxTreeFiles == 2

\* Lines 9-17.
checksum_list_file == "all-checksums.json"
checksum_list_status_file == "status-checksums.json"
\* os.path.basename(__file__)
script_name == "checksum-tool.py"
ignored_dirs == {"$RECYCLE.BIN", ".git"}
ignored_file_names == {checksum_list_file, checksum_list_status_file, script_name}

\* The directory and file names of the trees walked, and os.sep of the two
\* families of platforms.
DirNames == {"$RECYCLE.BIN", ".git", "docs"}
FileNames == {"notes.txt", checksum_list_file, script_name}
Separators == {"/", "\\"}

\* A path string is the sequence of its pieces: names and separator
\* characters.  os.getcwd() of line 168:
root_dir == IF os_sep = "\\" THEN <<"C:", "\\", "work">> ELSE <<"/", "work">>

\* os.path.join(path, name)
join(path, name) == path \o <<os_sep, name>>

\* str.split(sep): the pieces between the occurrences of sep, each a string.
RECURSIVE split(_, _)
split(s, sep) ==
  IF s = <<>> THEN << <<>> >>
  ELSE LET rest == split(Tail(s), sep)
       IN IF Head(s) = sep THEN << <<>> >> \o rest
          ELSE << <<Head(s)>> \o Head(rest) >> \o Tail(rest)

\* Lines 20-23: some element of the path split at backslashes is an ignored
\* directory name.
is_dir_ignored(current_abs_path) ==
  LET path_elements == split(current_abs_path, "\\")
  IN \E i \in 1..Len(path_elements) :
       path_elements[i] \in {<<d>> : d \in ignored_dirs}

\* The directories below the root, each the sequence of its names from the
\* root down, and the files of the tree.
Dirs == UNION {[1..n -> DirNames] : n \in 0..MaxDepth}
TreeFiles == [dir : Dirs, name : FileNames]
RECURSIVE TreesUpTo(_)
TreesUpTo(k) ==
  IF k = 0 THEN {{}}
  ELSE LET smaller == TreesUpTo(k - 1)
       IN smaller \cup {t \cup {f} : t \in smaller, f \in TreeFiles}
Trees == TreesUpTo(MaxTreeFiles)

\* os.walk(root_dir), top down: the root string it yields for a directory,
\* the directory's subdirectories and file names, and the orders in which
\* a listing can come.
RECURSIVE WalkRoot(_)
WalkRoot(d) ==
  IF d = <<>> THEN root_dir
  ELSE join(WalkRoot(SubSeq(d, 1, Len(d) - 1)), d[Len(d)])
ExistingDirs ==
  {<<>>} \cup UNION {{SubSeq(f.dir, 1, n) : n \in 0..Len(f.dir)} : f \in tree}
Subdirs(d) ==
  {e \in ExistingDirs : Len(e) = Len(d) + 1 /\ SubSeq(e, 1, Len(d)) = d}
FilesIn(d) == {f.name : f \in {g \in tree : g.dir = d}}
Listings(S) == {l \in [1..Cardinality(S) -> S] : Range(l) = S}

\* Lines 137-141: the paths of the files of one directory that are appended.
KeptFiles(root, files) ==
  LET kept == SelectSeq(files, LAMBDA file : file \notin ignored_file_names)
  IN [i \in 1..Len(kept) |-> join(root, kept[i])]

\* Lines 131-141: one iteration of the loop over os.walk.  An ignored
\* directory is skipped, and the walk still descends into it.
WalkStep ==
  /\ pc = "filter_files"
  /\ walk_stack # <<>>
  /\ LET d == Head(walk_stack)
         root == WalkRoot(d)
     IN \E dirs \in Listings(Subdirs(d)), files \in Listings(FilesIn(d)) :
          /\ walk_stack' = dirs \o Tail(walk_stack)
          /\ filtered_files' = IF is_dir_ignored(root) THEN filtered_files
                               ELSE filtered_files \o KeptFiles(root, files)
  /\ UNCHANGED <<main_vars, hash_vars, os_sep, tree>>

\* Line 143: the walk is over, the list is returned.
FilterReturn ==
  /\ pc = "filter_files"
  /\ walk_stack = <<>>
  /\ pc' = "filtered"
  /\ UNCHANGED <<mode, baseline_file, status_file, disk, no_file_exist_input,
                 operation_choice, stored_checksum_objs, futures, checksums,
                 matched, changed, new, missing, relocated, popped, printed,
                 baseline_writes, status_writes, exit_status, hash_vars,
                 walk_vars>>

\* filter_files is called on a tree, on a platform (line 129).
InitFilter ==
  /\ pc = "filter_files"
  /\ mode = "none"
  /\ baseline_file = [exists |-> FALSE, objs |-> <<>>]
  /\ status_file = [exists |-> FALSE, report |-> <<>>]
  /\ disk = [p \in Paths |-> "absent"]
  /\ no_file_exist_input = ""
  /\ operation_choice = ""
  /\ stored_checksum_objs = <<>>
  /\ futures = [p \in Paths |-> "none"]
  /\ checksums = <<>>
  /\ matched = <<>> /\ changed = <<>> /\ new = <<>> /\ missing = <<>>
  /\ relocated = <<>>
  /\ popped = <<>>
  /\ printed = {}
  /\ baseline_writes = 0 /\ status_writes = 0
  /\ exit_status = Running
  /\ HashIdle
  /\ filtered_files = <<>>
  /\ os_sep \in Separators
  /\ tree \in Trees
  /\ walk_stack = << <<>> >>

NextFilter == WalkStep \/ FilterReturn

SpecFilter == InitFilter /\ [][NextFilter]_vars

\* ================================================================ claims
\* The state after the loop of lines 93-122 of a compare run.
AfterReconcile == mode = "compare" /\ pc \in {"reconciled", "compared", "exited"}

HasUniquePaths(objs) ==
  \A i, j \in 1..Len(objs) : objs[i].file_path = objs[j].file_path => i = j

BaselinePaths == {stored_checksum_objs[i].file_path : i \in 1..Len(stored_checksum_objs)}
\* The current scan: the paths whose hashing succeeded, each with its digest.
Scanned == {p \in Paths : futures[p] = "done"}
Failed == {p \in Paths : futures[p] \in {"open_error", "read_error"}}

Files(list) == {list[i].file : i \in 1..Len(list)}
Count(list, p) == Cardinality({i \in 1..Len(list) : list[i].file = p})
\* The number of entries of path p that the relocation deletes returned.
PoppedCount(p) ==
  Cardinality({i \in 1..Len(popped) : popped[i].new # <<>> /\ popped[i].new[1].file = p})
  + Cardinality({i \in 1..Len(popped) :
                   popped[i].missing # <<>> /\ popped[i].missing[1].file = p})

\* C1 (Completeness): after the reconciliation of a baseline with unique
\* paths, every path of the baseline or of the current scan is in exactly one
\* of matched, changed, new, missing, or was deleted as one half of a pair
\* of a New and a Missing entry with the same digest; it is never in two of
\* them and never twice in one.
Completeness ==
  (AfterReconcile /\ HasUniquePaths(stored_checksum_objs)) =>
    /\ \A p \in BaselinePaths \cup Scanned :
         Count(matched, p) + Count(changed, p) + Count(new, p)
           + Count(missing, p) + PoppedCount(p) = 1
    /\ \A i \in 1..Len(popped) :
         /\ popped[i].new # <<>> /\ popped[i].missing # <<>>
         /\ popped[i].new[1].current_checksum = popped[i].missing[1].stored_checksum

\* The records of the baseline that hold path p.
RecordsOf(p) ==
  {i \in 1..Len(stored_checksum_objs) : stored_checksum_objs[i].file_path = p}
\* A baseline path absent from the scan and a scanned path absent from the
\* baseline that carry the same digest.
RelocationPair(a, b) ==
  /\ a \in BaselinePaths \ Scanned
  /\ b \in Scanned \ BaselinePaths
  /\ \E i \in RecordsOf(a) : stored_checksum_objs[i].checksum = compute_hash(b)
NoSharedDigest ==
  \A i \in 1..Len(new), j \in 1..Len(missing) :
    new[i].current_checksum # missing[j].stored_checksum
\* A well-formed baseline and a scan without failures: unique paths, every
\* checksum a digest, every file hashed.
CleanRun ==
  /\ HasUniquePaths(stored_checksum_objs)
  /\ \A i \in 1..Len(stored_checksum_objs) :
       stored_checksum_objs[i].checksum \in Digests
  /\ Failed = {}

\* ClassifyInOrder: the lists the workers leave when the tasks of the
\* scanned paths of `order` finish in that order.
RECURSIVE ClassifyInOrder(_, _, _)
ClassifyInOrder(order, i, lists) ==
  IF i > Len(order) THEN lists
  ELSE ClassifyInOrder(order, i + 1,
         IF order[i] \in Scanned THEN process_file(order[i], lists) ELSE lists)

EmptyLists == [matched |-> <<>>, changed |-> <<>>, new |-> <<>>,
               missing |-> <<>>, popped |-> <<>>]
\* The result of the run in which the tasks finish in the order a, b, c.
Reference ==
  ReconcileLoop(stored_checksum_objs, 1,
                ClassifyInOrder(<<"a", "b", "c">>, 1, EmptyLists))

\* C2 (Interleaving invariance): the final changed, new and missing sets of
\* a compare run are those of the run in which the tasks finish in the order
\* a, b, c, whatever order they finished in.  Stated for clean runs.
InterleavingInvariance ==
  (AfterReconcile /\ CleanRun) =>
    /\ Range(changed) = Range(Reference.changed)
    /\ Range(new) = Range(Reference.new)
    /\ Range(missing) = Range(Reference.missing)

\* C3 as stated (Relocation correctness): of every such pair, both paths are
\* gone from missing and new, neither is in matched or changed, and no New
\* and Missing entry of the report share a digest.  Stated for clean runs.
RelocationRemovesBoth ==
  (AfterReconcile /\ CleanRun) =>
    /\ \A a, b \in Paths :
         RelocationPair(a, b) =>
           /\ a \notin Files(missing) /\ b \notin Files(new)
           /\ {a, b} \cap (Files(matched) \cup Files(changed)) = {}
    /\ NoSharedDigest

\* C3 as amended, for a baseline that maps each path to one digest (unique
\* paths), as the claim's own example has it: of every such pair, the Missing entry of the baseline
\* path with that digest and the New entry of the current path are not both
\* left (the entries are deleted in pairs, one New with one Missing of the
\* digest, so at most one side keeps entries of it), neither path is in
\* matched or changed,
\* a baseline of the one record {a: D} against a scan of the one file
\* {b: D} leaves new, missing and matched empty, and no New and Missing
\* entry of the report share a digest.
RelocationCorrectness ==
  (AfterReconcile /\ HasUniquePaths(stored_checksum_objs)) =>
    /\ \A a, b \in Paths :
         RelocationPair(a, b) =>
           /\ ~(/\ \E j \in 1..Len(missing) :
                      /\ missing[j].file = a
                      /\ missing[j].stored_checksum = compute_hash(b)
                 /\ b \in Files(new))
           /\ {a, b} \cap (Files(matched) \cup Files(changed)) = {}
           /\ (Cardinality(Scanned) = 1 /\ Len(stored_checksum_objs) = 1) =>
                (new = <<>> /\ missing = <<>> /\ matched = <<>>)
    /\ NoSharedDigest

\* A run in which a relocation pair existed and a pair of entries was deleted.
RelocationWitness ==
  /\ AfterReconcile /\ HasUniquePaths(stored_checksum_objs)
  /\ \E a, b \in Paths : RelocationPair(a, b)
  /\ popped # <<>>

\* The digests recorded for p in compare mode, in any of the lists or in a
\* deleted New entry.
ClassifiedDigests(p) ==
  {e.current_checksum : e \in {x \in Range(matched) \cup Range(changed) \cup Range(new) : x.file = p}}
  \cup {popped[i].new[1].current_checksum :
          i \in {j \in 1..Len(popped) : popped[j].new # <<>> /\ popped[j].new[1].file = p}}
\* The other files are recorded with their digests.
OthersRecorded ==
  \A p \in Submitted \ Failed :
    IF mode = "generate"
    THEN Cardinality({i \in 1..Len(checksums) :
           checksums[i] = [file_path |-> p, checksum |-> compute_hash(p)]}) = 1
    ELSE ClassifiedDigests(p) = {compute_hash(p)}
\* The failure lines printed name the failed path.
FailureNamesPath(p) ==
  \E line \in printed : line.file_path = p \/ line.exc.filename = p

\* C4 (Isolation of failures): at the end of a generate or compare run in
\* which exactly one of the eligible files failed to hash, every other file
\* is recorded with its digest, the failure printed names the failed path,
\* and the run went to its end (the file of the mode was written).
IsolationOfFailures ==
  (pc = "exited" /\ mode # "none" /\ Cardinality(Failed) = 1) =>
    /\ OthersRecorded
    /\ \A p \in Failed : FailureNamesPath(p)
    /\ baseline_writes + status_writes = 1

\* The scan is the baseline: same paths, same digests.
IdenticalScan ==
  /\ Scanned = BaselinePaths
  /\ \A i \in 1..Len(stored_checksum_objs) :
       /\ stored_checksum_objs[i].file_path \in Scanned
       /\ stored_checksum_objs[i].checksum = compute_hash(stored_checksum_objs[i].file_path)

\* C5 (Idempotence): when the scan has the paths and digests of the
\* baseline, changed, new and missing end empty, matched holds every baseline
\* path, and the report written holds three empty lists.
Idempotence ==
  (AfterReconcile /\ IdenticalScan) =>
    /\ changed = <<>> /\ new = <<>> /\ missing = <<>>
    /\ Files(matched) = BaselinePaths
    /\ status_file.exists =>
         status_file.report = [changed |-> <<>>, new |-> <<>>, missing |-> <<>>]

\* A compare run of a baseline of two records on the two unchanged files.
IdempotenceWitness ==
  /\ pc = "exited" /\ mode = "compare"
  /\ IdenticalScan
  /\ Len(matched) = 2

\* C6 (Malformed baseline rejection): a compare run on a baseline with two
\* records of one file_path submits no hashing task, classifies nothing,
\* writes no report and, once exited, has a non-zero exit status.
MalformedBaselineRejected ==
  (mode = "compare" /\ ~HasUniquePaths(baseline_file.objs)) =>
    /\ Submitted = {}
    /\ matched = <<>> /\ changed = <<>> /\ new = <<>> /\ missing = <<>>
    /\ status_writes = 0
    /\ pc = "exited" => exit_status # ExitNormally

\* C7 (Write-once after completion): neither file is written twice, a
\* write has happened only when every eligible file was submitted and every
\* submitted task has finished, and a run that reached its end has written
\* the file of its operation exactly once and the other one not at all.
WriteOnceAfterCompletion ==
  /\ baseline_writes <= 1 /\ status_writes <= 1
  /\ (baseline_writes + status_writes > 0) =>
       /\ Submitted = Range(filter_files)
       /\ \A p \in Submitted : futures[p] # "pending"
  /\ (pc = "exited" /\ mode = "generate") =>
       (baseline_writes = 1 /\ status_writes = 0)
  /\ (pc = "exited" /\ mode = "compare") =>
       (status_writes = 1 /\ baseline_writes = 0)

\* A compare run over two files, one of which failed, has written the report.
WriteOnceWitness ==
  /\ mode = "compare" /\ status_writes = 1
  /\ Cardinality(Submitted) = 2 /\ Cardinality(Failed) = 1

\* The digest of the whole content of a file of `size` bytes.
WholeContentDigest(size) == [absorbed |-> size, intact |-> TRUE]

\* C8 (Digest independence from chunking): when compute_hash returns, the
\* accumulator holds the digest of the whole content, whichever of the three
\* chunk sizes the file size selected.
ChunkingIndependence ==
  h_pc = "done" =>
    /\ file_hash = WholeContentDigest(file_size)
    /\ adaptive_chunk_size \in {max_chunk_size, 2^16, 2^20}

\* A file over 16 MiB read in 1 MiB chunks, the last one partial.
ChunkingWitness ==
  /\ h_pc = "done"
  /\ adaptive_chunk_size = 2^20
  /\ file_size > 2^24 /\ file_size % adaptive_chunk_size # 0

\* C9 (Operation selection): with a baseline file present, an answer the
\* prompt loop accepts as generate runs compute_checksums, one it accepts as
\* compare runs compare_checksums, and any other answer runs nothing and is
\* asked again.
OperationSelection ==
  operation_choice # "" =>
    /\ Lower(operation_choice) = "generate" => mode = "generate"
    /\ Lower(operation_choice) = "compare" => mode = "compare"
    /\ Lower(operation_choice) \notin valid_operations =>
         (mode = "none" /\ pc = "start")

\* The user answered the initial-baseline prompt with something other than y/Y.
Declined == no_file_exist_input # "" /\ Lower(no_file_exist_input) # "y"

\* C10 (Exit status): a run that ended because the user declined the
\* initial-baseline prompt has a non-zero exit status, hashed nothing and
\* wrote no baseline; every other run that ended has exit status zero.
ExitStatus ==
  pc = "exited" =>
    IF Declined
    THEN /\ exit_status # ExitNormally
         /\ Submitted = {}
         /\ baseline_writes = 0
    ELSE exit_status = ExitNormally

\* The lists as the workers leave them, before the loop of lines 93-122.
InPool == mode = "compare" /\ pc = "compare_pool"

\* C11 (Step-1 classification rule): for a baseline with unique paths, every
\* successfully hashed path is in matched when the baseline has a record of
\* it with an equal digest, in changed when it has a record of it with an
\* unequal digest (every changed entry has unequal checksums), and in new
\* only when the baseline has no record of it, whatever the stored digest,
\* the empty string included.
ClassificationRule ==
  (InPool /\ HasUniquePaths(stored_checksum_objs)) =>
    /\ \A p \in Scanned :
         LET stored == StoredGet(stored_checksum_objs, p)
         IN /\ (p \in BaselinePaths /\ stored = compute_hash(p)) =>
                 (Count(matched, p) = 1 /\ Count(changed, p) + Count(new, p) = 0)
            /\ (p \in BaselinePaths /\ stored # compute_hash(p)) =>
                 (Count(changed, p) = 1 /\ Count(matched, p) + Count(new, p) = 0)
            /\ p \in Files(new) => p \notin BaselinePaths
    /\ \A i \in 1..Len(changed) :
         changed[i].stored_checksum # changed[i].current_checksum

\* The two-phase algorithm of the specification.  Phase one: the Missing
\* entries, one per baseline record whose path the workers classified
\* nowhere.
RECURSIVE AllMissing(_, _, _)
AllMissing(objs, i, lists) ==
  IF i > Len(objs) THEN <<>>
  ELSE (IF IsClassified(objs[i].file_path, lists) THEN <<>>
        ELSE <<[file |-> objs[i].file_path,
                stored_checksum |-> objs[i].checksum,
                current_checksum |-> objs[i].checksum]>>)
       \o AllMissing(objs, i + 1, lists)

\* Phase two: for each Missing entry in turn, with digest D, the entry is
\* removed together with the first New entry of digest D, if there is one.
RECURSIVE RelocationPass(_, _, _)
RelocationPass(todo, new_left, missing_kept) ==
  IF todo = <<>> THEN [new |-> new_left, missing |-> missing_kept]
  ELSE LET hits == {i \in 1..Len(new_left) :
                      new_left[i].current_checksum = Head(todo).stored_checksum}
       IN IF hits = {}
          THEN RelocationPass(Tail(todo), new_left, Append(missing_kept, Head(todo)))
          ELSE RelocationPass(Tail(todo),
                 RemoveAt(new_left, CHOOSE i \in hits : \A j \in hits : i <= j),
                 missing_kept)

TwoPhase(objs, lists) == RelocationPass(AllMissing(objs, 1, lists), lists.new, <<>>)

\* C12 (single loop against the two-phase algorithm): for a baseline with
\* unique paths, the step that runs the loop of lines 93-122 leaves in new
\* and missing what the two-phase algorithm leaves, for every order of new.
SingleLoopIsTwoPhase ==
  [][(InPool /\ pc' = "reconciled" /\ HasUniquePaths(stored_checksum_objs)) =>
       /\ new' = TwoPhase(stored_checksum_objs, Lists).new
       /\ missing' = TwoPhase(stored_checksum_objs, Lists).missing]_vars

\* C13 (no streaming reconciliation): in compare mode, while a submitted
\* hashing task has not completed, matched, changed, new and missing are
\* as line 63 made them.
NoStreamingReconciliation ==
  (mode = "compare" /\ pc = "compare_pool" /\ ~AllTasksCompleted) =>
    /\ matched = <<>>
    /\ changed = <<>>
    /\ new = <<>>
    /\ missing = <<>>

\* The entries of a list that carry digest D, and the halves of the deleted
\* pairs that carry it.
WithDigest(list, D) == {i \in 1..Len(list) : list[i].current_checksum = D}
RemovedNew(pairs, D) ==
  {i \in 1..Len(pairs) : pairs[i].new # <<>> /\ pairs[i].new[1].current_checksum = D}
RemovedMissing(pairs, D) ==
  {i \in 1..Len(pairs) :
     pairs[i].missing # <<>> /\ pairs[i].missing[1].stored_checksum = D}
Min(x, y) == IF x <= y THEN x ELSE y
\* The list without its first k entries of digest D.
RECURSIVE DropFirst(_, _, _)
DropFirst(list, D, k) ==
  IF k = 0 \/ list = <<>> THEN list
  ELSE IF Head(list).current_checksum = D THEN DropFirst(Tail(list), D, k - 1)
       ELSE <<Head(list)>> \o DropFirst(Tail(list), D, k)
RECURSIVE DropFirstOfEach(_, _, _)
DropFirstOfEach(list, ds, pairs) ==
  IF ds = {} THEN list
  ELSE LET D == CHOOSE d \in ds : TRUE
       IN DropFirstOfEach(DropFirst(list, D, Cardinality(RemovedNew(pairs, D))),
                          ds \ {D}, pairs)

\* C14 (relocation tie-break): over the step that runs the loop of lines
\* 93-122, for every digest D the number of Missing entries of D deleted and
\* the number of New entries of D deleted both equal
\* min(number of Missing of D, number of New of D); the New entries deleted
\* are the first ones of D in the order of new, and the others stay in new
\* in their order.
RelocationTieBreak ==
  [][(InPool /\ pc' = "reconciled") =>
       /\ \A D \in StoredChecksums :
            LET pairs == Min(Cardinality(WithDigest(missing', D))
                               + Cardinality(RemovedMissing(popped', D)),
                             Cardinality(WithDigest(new, D)))
            IN /\ Cardinality(RemovedMissing(popped', D)) = pairs
               /\ Cardinality(RemovedNew(popped', D)) = pairs
       /\ new' = DropFirstOfEach(new, StoredChecksums, popped')]_vars

\* The Missing halves of the deleted pairs that carry path p.
PoppedMissing(p) ==
  {i \in 1..Len(popped) : popped[i].missing # <<>> /\ popped[i].missing[1].file = p}
InReport(p) ==
  p \in Files(status_file.report.changed) \cup Files(status_file.report.new)
          \cup Files(status_file.report.missing)

\* C15 (failed hash in compare mode): after the reconciliation, a file whose
\* hashing failed is in none of matched, changed, new, and was in no New
\* entry deleted as a pair.  If its path is in the baseline, each of its
\* records made a Missing entry, which is in missing (and in the report
\* written from it) or was deleted in a pair with a New entry whose digest
\* is that of a record of the path.  If its path is not in the baseline it
\* is in no list and in no set of the report.
FailedHashInCompare ==
  AfterReconcile =>
    \A p \in Failed :
      /\ Count(matched, p) + Count(changed, p) + Count(new, p) = 0
      /\ \A i \in 1..Len(popped) : popped[i].new # <<>> => popped[i].new[1].file # p
      /\ p \in BaselinePaths =>
           /\ Count(missing, p) + Cardinality(PoppedMissing(p))
                = Cardinality(RecordsOf(p))
           /\ \A i \in PoppedMissing(p) :
                /\ popped[i].new # <<>>
                /\ \E r \in RecordsOf(p) :
                     stored_checksum_objs[r].checksum
                       = popped[i].new[1].current_checksum
           /\ status_file.exists =>
                Count(status_file.report.missing, p) = Count(missing, p)
      /\ p \notin BaselinePaths =>
           /\ Count(missing, p) = 0 /\ PoppedMissing(p) = {}
           /\ status_file.exists => ~InReport(p)

\* A finished compare run with a failed baseline file left in missing, and
\* one with a failed baseline file deleted in a pair with a New file.
FailedHashWitness ==
  /\ mode = "compare" /\ pc = "exited"
  /\ \E p \in Failed \cap BaselinePaths :
       \/ Count(status_file.report.missing, p) = 1 /\ popped = <<>> /\ new # <<>>
       \/ PoppedMissing(p) # {}

\* The records of a list of FileRecords that hold path p, and the number of
\* times compute_checksums submitted p (lines 150-153 submit once for each
\* element of the list filter_files returned).
RecordsFor(objs, p) == {i \in 1..Len(objs) : objs[i].file_path = p}
Submissions(p) == Cardinality({i \in 1..Len(filtered_files) : filtered_files[i] = p})

\* C16 (generated baseline well-formed): once compute_checksums has written
\* the baseline, the file holds exactly one record, with the file's digest,
\* for each file found under the root that was hashed successfully and none
\* for any other path, no two records share a file_path, and each file found
\* was submitted to the pool exactly once, whatever order the tasks
\* completed in.
GeneratedBaselineWellFormed ==
  (mode = "generate" /\ pc \in {"generated", "exited"}) =>
    /\ \A p \in Paths :
         /\ Cardinality(RecordsFor(baseline_file.objs, p))
              = (IF disk[p] \in Contents THEN 1 ELSE 0)
         /\ \A i \in RecordsFor(baseline_file.objs, p) :
              baseline_file.objs[i].checksum = hexdigest(disk[p])
         /\ Submissions(p) = (IF disk[p] # "absent" THEN 1 ELSE 0)
    /\ HasUniquePaths(baseline_file.objs)

\* A generate run of two files whose tasks completed in the reverse of the
\* order of submission.
GeneratedBaselineWitness ==
  /\ mode = "generate" /\ pc = "exited"
  /\ filtered_files = <<"a", "b">>
  /\ Len(baseline_file.objs) = 2
  /\ baseline_file.objs[1].file_path = "b"
  /\ baseline_file.objs[2].file_path = "a"

\* The path filter_files builds for a file of the tree, and the files the
\* filter is to leave out.
PathOf(f) == join(WalkRoot(f.dir), f.name)
Excluded(f) ==
  \/ \E i \in 1..Len(f.dir) : f.dir[i] \in ignored_dirs
  \/ f.name \in ignored_file_names
Yielded(path) == Cardinality({i \in 1..Len(filtered_files) : filtered_files[i] = path})

\* C17 (path filter exclusion): when filter_files returns, no file below a
\* directory named $RECYCLE.BIN or .git and no file named as the baseline
\* file, the status file or the script is in the list, and every other file
\* under the root is in it exactly once; the list holds nothing else.
PathFilterExclusion ==
  pc = "filtered" =>
    /\ \A f \in tree : Yielded(PathOf(f)) = (IF Excluded(f) THEN 0 ELSE 1)
    /\ Range(filtered_files) \subseteq {PathOf(f) : f \in tree}

\* C18 (frame of the two operations): no step of a compare run writes or
\* changes the baseline file, and no step of a generate run writes or
\* changes the status-report file, whatever files succeed or fail.
FrameOfOperations ==
  [][/\ mode' = "compare" =>
          (baseline_file' = baseline_file /\ baseline_writes' = baseline_writes)
     /\ mode' = "generate" =>
          (status_file' = status_file /\ status_writes' = status_writes)]_vars

\* A finished compare run with a failed file that wrote its report, over a
\* baseline that exists.
FrameWitness ==
  /\ mode = "compare" /\ pc = "exited"
  /\ Failed # {}
  /\ status_file.exists /\ status_writes = 1
  /\ baseline_file.exists /\ baseline_writes = 0

====
